---- MODULE Spec2Model ----
(***************************************************************************)
(* A cluster of voting nodes (app.py) over the hash-chained ledger of      *)
(* blockchain.py.  Every node runs the proposer loop on its own thread and *)
(* serves /tx, /propose and /commit on handler threads; the threads of a   *)
(* node share its ledger and its mempool without a lock, so the loop and   *)
(* the handlers are split at the points where the other thread can run.    *)
(***************************************************************************)
EXTENDS Integers, Sequences, FiniteSets, TLC

\* ------------------------------------------------------------ bounds
MaxVotes == 4       \* votes submitted over a run of honest nodes
MaxOpenVotes == 2   \* votes submitted over a run with foreign requests
MaxClock == 2       \* drafts built over a run
MaxInject == 1      \* requests sent by something else than a proposer loop
MaxLostRounds == 1  \* rounds in which a peer may leave /propose unanswered, under SpecLive

\* ------------------------------------------------- program constants
MAX_TX == 2             \* --max-tx (the model runs the nodes with --max-tx 2)
Needed == 1             \* needed = 1 in append_committed_block

NodeIds == {"A", "B"}
Registry == <<"A", "B">>   \* the ids of validators.json, in file order
Unregistered == "X"             \* an identity validators.json does not hold
None == "None"
NoKey == ""

\* Digests.  A digest is the tuple of the hashed fields followed by the
\* previous digest: an injective stand-in for SHA-256 over the sorted JSON.
ZeroHash == <<0>>       \* previous_hash "0" of the genesis block
GenesisHash == <<1>>    \* the fixed "6d0c98..." of FIXED_GENESIS_BLOCK
ForgedHash == <<2>>     \* a value that is the digest of no block
NoHash == <<>>          \* the block dict holds no (or an empty) "hash"

VARIABLES
    validators,            \* blockchain.validators, the same file on every node
    running,               \* the nodes whose process the model follows
    chain,                 \* blockchain.chain of every node
    current_transactions,  \* blockchain.current_transactions of every node
    mempool,               \* app.mempool of every node
    pc,                    \* where the proposer loop of every node stands
    height,                \* proposer_loop: height
    cand,                  \* proposer_loop: block_candidate
    sigs,                  \* proposer_loop: sigs
    vi,                    \* proposer_loop: position of the `for v in validators`
    hpc,                   \* where the /commit handler of every node stands
    hblk,                  \* receive_commit: block
    hmsg,                  \* receive_commit: msg of a rejected block
    hfrom,                 \* the proposer loop that waits for the handler's response
    presp,                 \* receive_proposal: the answer to the last foreign request
    clock,                 \* time.time()
    votesLeft,             \* the votes the clients will still submit
    injectsLeft,           \* the foreign requests that will still arrive
    accepted               \* the votes POST /tx of every node has answered 201 to

vars == <<validators, running, chain, current_transactions, mempool, pc, height, cand,
          sigs, vi, hpc, hblk, hmsg, hfrom, presp, clock, votesLeft, injectsLeft, accepted>>

\* ------------------------------------------------------------ helpers
Max(a, b) == IF a >= b THEN a ELSE b

Range(s) == {s[i] : i \in 1..Len(s)}

Contains(s, x) == \E i \in 1..Len(s) : s[i] = x

\* list.remove(x): the first occurrence leaves
RECURSIVE RemoveFirst(_, _)
RemoveFirst(s, x) ==
    IF s = <<>> THEN <<>>
    ELSE IF Head(s) = x THEN Tail(s)
    ELSE <<Head(s)>> \o RemoveFirst(Tail(s), x)

\* for tx in txs: if tx in pool: pool.remove(tx)
RECURSIVE RemoveMatching(_, _)
RemoveMatching(pool, txs) ==
    IF txs = <<>> THEN pool
    ELSE RemoveMatching(
             IF Contains(pool, Head(txs)) THEN RemoveFirst(pool, Head(txs)) ELSE pool,
             Tail(txs))

\* s[:n]
Take(s, n) == SubSeq(s, 1, IF Len(s) < n THEN Len(s) ELSE n)

\* ------------------------------------------------------ crypto_utils
SignPem(sk, message) == [signer |-> sk, digest |-> message]

VerifyPem(vk, message, sig) == sig.signer = vk /\ sig.digest = message

BadSig == [signer |-> NoKey, digest |-> NoHash]

HashBlockForSigning(b) ==
    <<b.index, b.timestamp, b.transactions, b.proposer>> \o b.previous_hash

\* ------------------------------------------------------- blockchain
CalculateHash(b) ==
    <<b.index, b.timestamp, b.transactions, b.proposer>> \o b.previous_hash

FIXED_GENESIS_BLOCK ==
    [index |-> 0, timestamp |-> 1763476947,
     transactions |-> <<"Genesis Block">>, previous_hash |-> ZeroHash,
     proposer |-> None, proposer_sig |-> BadSig, signatures |-> <<>>,
     hash |-> GenesisHash]

NoBlock ==
    [index |-> 0, timestamp |-> 0, transactions |-> <<>>, previous_hash |-> NoHash,
     proposer |-> None, proposer_sig |-> BadSig, signatures |-> <<>>,
     hash |-> NoHash]

GetValidatorPubkey(vals, id) == IF Contains(vals, id) THEN id ELSE NoKey

\* valid_sigs of append_committed_block
ValidSigs(vals, b) ==
    {b.signatures[i].validator : i \in
        {j \in 1..Len(b.signatures) :
            /\ GetValidatorPubkey(vals, b.signatures[j].validator) # NoKey
            /\ VerifyPem(GetValidatorPubkey(vals, b.signatures[j].validator),
                         HashBlockForSigning(b), b.signatures[j].sig)}}

\* append_committed_block without its previous_hash test
AppendVerdictNoPrevCheck(ch, vals, b) ==
    IF GetValidatorPubkey(vals, b.proposer) = NoKey
        THEN "unknown proposer"
    ELSE IF ~VerifyPem(GetValidatorPubkey(vals, b.proposer),
                       HashBlockForSigning(b), b.proposer_sig)
        THEN "invalid proposer signature"
    ELSE IF Cardinality(ValidSigs(vals, b)) < Needed
        THEN "not enough valid signatures"
    ELSE "appended"

\* append_committed_block with the proposer looked up before the tip
AppendVerdictProposerFirst(ch, vals, b) ==
    IF GetValidatorPubkey(vals, b.proposer) = NoKey
        THEN "unknown proposer"
    ELSE IF ch # <<>> /\ b.previous_hash # ch[Len(ch)].hash
        THEN "previous_hash mismatch"
    ELSE IF ~VerifyPem(GetValidatorPubkey(vals, b.proposer),
                       HashBlockForSigning(b), b.proposer_sig)
        THEN "invalid proposer signature"
    ELSE IF Cardinality(ValidSigs(vals, b)) < Needed
        THEN "not enough valid signatures"
    ELSE "appended"

\* the msg append_committed_block returns
AppendVerdict(ch, vals, b) ==
    IF ch # <<>> /\ b.previous_hash # ch[Len(ch)].hash
        THEN "previous_hash mismatch"
    ELSE IF GetValidatorPubkey(vals, b.proposer) = NoKey
        THEN "unknown proposer"
    ELSE IF ~VerifyPem(GetValidatorPubkey(vals, b.proposer),
                       HashBlockForSigning(b), b.proposer_sig)
        THEN "invalid proposer signature"
    ELSE IF Cardinality(ValidSigs(vals, b)) < Needed
        THEN "not enough valid signatures"
    ELSE "appended"

\* a store that writes the block over the tip
AppendBlockOverTip(ch, b) == [ch EXCEPT ![Len(ch)] = b]

\* self.chain.append(block_obj)
AppendBlock(ch, b) == Append(ch, b)

\* block_obj of append_committed_block
BlockObj(b) == [b EXCEPT !.hash = IF b.hash = NoHash THEN CalculateHash(b) ELSE b.hash]

IsChainValid(ch) ==
    \A i \in 2..Len(ch) :
        /\ ch[i].hash = CalculateHash(ch[i])
        /\ ch[i].previous_hash = ch[i - 1].hash

\* tx.startswith(prefix), over the texts a ledger or a mempool can hold here:
\* "Genesis Block", "Vote: YES" and "Vote: NO", none a longer form of another
StartsWith(tx, prefix) == tx = prefix

\* the transactions of a list that start with prefix
RECURSIVE CountPrefix(_, _)
CountPrefix(txs, prefix) ==
    IF txs = <<>> THEN 0
    ELSE (IF StartsWith(txs[1], prefix) THEN 1 ELSE 0)
         + CountPrefix(SubSeq(txs, 2, Len(txs)), prefix)

\* the same over the blocks of a chain
RECURSIVE CountChain(_, _)
CountChain(ch, prefix) ==
    IF ch = <<>> THEN 0
    ELSE CountPrefix(ch[1].transactions, prefix)
         + CountChain(SubSeq(ch, 2, Len(ch)), prefix)

\* Blockchain.count_votes: the blocks of self.chain, then
\* self.current_transactions
CountVotes(ch, cur) ==
    [YES |-> CountChain(ch, "Vote: YES") + CountPrefix(cur, "Vote: YES"),
     NO |-> CountChain(ch, "Vote: NO") + CountPrefix(cur, "Vote: NO")]

\* -------------------------------------------------------------- app
NumValidators(vals) == Max(1, Len(vals))

\* a threshold of half the validators
ThresholdHalf(vals) == Max(1, NumValidators(vals) \div 2)

Threshold(vals) == Max(1, (NumValidators(vals) \div 2) + 1)

\* an election that is one place off
ProposerIndexNext(vals, h) == (h + 1) % NumValidators(vals)

ProposerIndex(vals, h) == h % NumValidators(vals)

\* validators[proposer_index]['id']
ProposerId(vals, h) == vals[ProposerIndex(vals, h) + 1]

\* the nodes of a cluster: one per entry of validators.json, and a lone
\* node when the file is missing
Cluster(vals) == IF vals = <<>> THEN {"A"} ELSE Range(vals)

\* the response of node v to POST /propose, NoBlock standing for a 400
NoResp == [validator |-> None, sig |-> BadSig]

\* a handler that signs without verifying proposer_sig
ReceiveProposalUnverified(v, vals, block, proposer_sig) ==
    IF GetValidatorPubkey(vals, block.proposer) = NoKey THEN NoResp
    ELSE [validator |-> v, sig |-> SignPem(v, HashBlockForSigning(block))]

ReceiveProposal(v, vals, block, proposer_sig) ==
    IF GetValidatorPubkey(vals, block.proposer) = NoKey THEN NoResp
    ELSE IF ~VerifyPem(GetValidatorPubkey(vals, block.proposer),
                       HashBlockForSigning(block), proposer_sig) THEN NoResp
    ELSE [validator |-> v, sig |-> SignPem(v, HashBlockForSigning(block))]

\* unique of proposer_loop, as the list of its items
RECURSIVE Dedupe(_)
Dedupe(s) ==
    IF s = <<>> THEN <<>>
    ELSE LET init == Dedupe(SubSeq(s, 1, Len(s) - 1))
             e == s[Len(s)]
         IN  IF e.validator = None \/ e.sig = BadSig THEN init
             ELSE IF \E i \in 1..Len(init) : init[i].validator = e.validator
                 THEN [i \in 1..Len(init) |->
                          IF init[i].validator = e.validator THEN e ELSE init[i]]
             ELSE Append(init, e)

WithOwn(n, s, proposer_sig) ==
    IF \E i \in 1..Len(s) : s[i].validator = n THEN s
    ELSE Append(s, [validator |-> n, sig |-> proposer_sig])

Upper(v) == CASE v = "yes" -> "YES" [] v = "no" -> "NO" [] OTHER -> v

\* ------------------------------------------------------------- Init
Start ==
    /\ validators \in {SubSeq(Registry, 1, k) : k \in 0..Len(Registry)}
    /\ chain = [n \in NodeIds |-> <<FIXED_GENESIS_BLOCK>>]
    /\ current_transactions = [n \in NodeIds |-> <<>>]
    /\ mempool = [n \in NodeIds |-> <<>>]
    /\ pc = [n \in NodeIds |-> "sleep"]
    /\ height = [n \in NodeIds |-> 0]
    /\ cand = [n \in NodeIds |-> NoBlock]
    /\ sigs = [n \in NodeIds |-> <<>>]
    /\ vi = [n \in NodeIds |-> 0]
    /\ hpc = [n \in NodeIds |-> "idle"]
    /\ hblk = [n \in NodeIds |-> NoBlock]
    /\ hmsg = [n \in NodeIds |-> ""]
    /\ hfrom = [n \in NodeIds |-> None]
    /\ presp = [node |-> None, resp |-> NoResp]
    /\ clock = 1
    /\ accepted = [n \in NodeIds |-> [t \in {"Vote: YES", "Vote: NO"} |-> 0]]

\* honest nodes and their clients
Init ==
    /\ Start
    /\ running = Cluster(validators)
    /\ votesLeft = MaxVotes
    /\ injectsLeft = 0

\* one node of the cluster, reachable by anyone who can post to /propose and
\* /commit; its peers answer /propose, and what becomes of them is not followed
InitOpen ==
    /\ Start
    /\ running \in {{n} : n \in Cluster(validators)}
    /\ votesLeft = MaxOpenVotes
    /\ injectsLeft = MaxInject

loopVars == <<pc, height, cand, sigs, vi>>
handlerVars == <<hpc, hblk, hmsg, hfrom>>
envVars == <<votesLeft, injectsLeft>>

\* ------------------------------------------------- POST /tx, /vote
Submit(n, vote) ==
    /\ n \in running
    /\ votesLeft > 0
    /\ votesLeft' = votesLeft - 1
    /\ IF Upper(vote) \in {"YES", "NO"}
       THEN /\ mempool' = [mempool EXCEPT ![n] = Append(@, "Vote: " \o Upper(vote))]
            /\ accepted' = [accepted EXCEPT ![n]["Vote: " \o Upper(vote)] = @ + 1]
       ELSE UNCHANGED <<mempool, accepted>>
    /\ UNCHANGED <<validators, running, chain, current_transactions, loopVars, handlerVars,
                   presp, clock, injectsLeft>>

\* --------------------------------------------------- proposer_loop
\* while True: sleep; refresh the threshold; the mempool test; height,
\* proposer_index, proposer_id.  With an empty validators list
\* validators[0] raises IndexError, which ends the thread.
TickCheck(n) ==
    /\ n \in running
    /\ pc[n] = "sleep"
    /\ IF Len(mempool[n]) < MAX_TX
       THEN UNCHANGED <<pc, height>>
       ELSE IF validators = <<>>
       THEN /\ pc' = [pc EXCEPT ![n] = "crashed"]
            /\ UNCHANGED height
       ELSE IF ProposerId(validators, Len(chain[n])) # n
       THEN UNCHANGED <<pc, height>>
       ELSE /\ pc' = [pc EXCEPT ![n] = "build"]
            /\ height' = [height EXCEPT ![n] = Len(chain[n])]
    /\ UNCHANGED <<validators, running, chain, current_transactions, mempool, cand, sigs, vi,
                   handlerVars, presp, clock, envVars, accepted>>

\* a round that keeps the answers of the round before
NewSigsKept(old) == old

\* sigs = []
NewSigs(old) == <<>>

\* block_candidate, h, proposer_sig, and the empty list of answers
BuildDraft(n) ==
    /\ pc[n] = "build"
    /\ clock <= MaxClock
    /\ LET draft == [index |-> height[n], timestamp |-> clock,
                     transactions |-> Take(mempool[n], MAX_TX),
                     previous_hash |-> chain[n][Len(chain[n])].hash,
                     proposer |-> n, proposer_sig |-> BadSig,
                     signatures |-> <<>>, hash |-> NoHash]
       IN  cand' = [cand EXCEPT ![n] =
                       [draft EXCEPT !.proposer_sig =
                                         SignPem(n, HashBlockForSigning(draft))]]
    /\ clock' = clock + 1
    /\ pc' = [pc EXCEPT ![n] = "propose"]
    /\ vi' = [vi EXCEPT ![n] = 1]
    /\ sigs' = [sigs EXCEPT ![n] = NewSigs(@)]
    /\ UNCHANGED <<validators, running, chain, current_transactions, mempool, height,
                   handlerVars, presp, envVars, accepted>>

\* one turn of the propose loop: the peer answers 200, or it answers 400 or
\* cannot be reached within the timeout
SendPropose(n, reached) ==
    /\ pc[n] = "propose"
    /\ vi[n] <= Len(validators)
    /\ LET resp == ReceiveProposal(validators[vi[n]], validators, cand[n],
                                   cand[n].proposer_sig)
       IN  sigs' = [sigs EXCEPT ![n] =
                       IF reached /\ resp # NoResp THEN Append(@, resp) ELSE @]
    /\ vi' = [vi EXCEPT ![n] = @ + 1]
    /\ UNCHANGED <<validators, running, chain, current_transactions, mempool, pc, height,
                   cand, handlerVars, presp, clock, envVars, accepted>>

\* the attestations the round counts
Unique(n) == Dedupe(WithOwn(n, sigs[n], cand[n].proposer_sig))

\* own signature, dedupe, threshold: the draft is finalized or dropped
Decide(n) ==
    /\ pc[n] = "propose"
    /\ vi[n] > Len(validators)
    /\ IF Len(Unique(n)) >= Threshold(validators)
       THEN /\ cand' = [cand EXCEPT ![n] = [@ EXCEPT !.signatures = Unique(n)]]
            /\ pc' = [pc EXCEPT ![n] = "commit"]
            /\ vi' = [vi EXCEPT ![n] = 1]
            /\ UNCHANGED height
       ELSE /\ cand' = [cand EXCEPT ![n] = NoBlock]
            /\ pc' = [pc EXCEPT ![n] = "sleep"]
            /\ vi' = [vi EXCEPT ![n] = 0]
            /\ height' = [height EXCEPT ![n] = 0]
    /\ UNCHANGED <<validators, running, chain, current_transactions, mempool, sigs,
                   handlerVars,
                   presp, clock, envVars, accepted>>

\* one turn of the commit broadcast: requests.post reaches the peer's
\* handler and waits for its response, or it fails at once
SendCommit(n, reached) ==
    /\ pc[n] = "commit"
    /\ vi[n] <= Len(validators)
    /\ LET v == validators[vi[n]]
       IN  IF reached
           THEN /\ v \in running
                /\ hpc[v] = "idle"
                /\ hpc' = [hpc EXCEPT ![v] = "recv"]
                /\ hblk' = [hblk EXCEPT ![v] = cand[n]]
                /\ hfrom' = [hfrom EXCEPT ![v] = n]
                /\ pc' = [pc EXCEPT ![n] = "await"]
                /\ UNCHANGED <<hmsg, vi>>
           ELSE /\ vi' = [vi EXCEPT ![n] = @ + 1]
                /\ UNCHANGED <<handlerVars, pc>>
    /\ UNCHANGED <<validators, running, chain, current_transactions, mempool, height,
                   cand, sigs, presp, clock, envVars, accepted>>

\* timeout=3 passes before the response: the loop goes on, the handler too
Timeout(n) ==
    /\ pc[n] = "await"
    /\ pc' = [pc EXCEPT ![n] = "commit"]
    /\ vi' = [vi EXCEPT ![n] = @ + 1]
    /\ hfrom' = [hfrom EXCEPT ![validators[vi[n]]] = None]
    /\ UNCHANGED <<validators, running, chain, current_transactions, mempool, height,
                   cand, sigs, hpc, hblk, hmsg, presp, clock, envVars, accepted>>

\* the response of the handler of v reaches the loop that waits for it
Respond(v) ==
    IF hfrom[v] = None
    THEN UNCHANGED <<pc, vi, hfrom>>
    ELSE /\ pc' = [pc EXCEPT ![hfrom[v]] = "commit"]
         /\ vi' = [vi EXCEPT ![hfrom[v]] = @ + 1]
         /\ hfrom' = [hfrom EXCEPT ![v] = None]

\* blockchain.append_committed_block(block_candidate), from its start to its
\* last test: no lock is held, so the handler threads run before the append
LocalCheck(n) ==
    /\ pc[n] = "commit"
    /\ vi[n] > Len(validators)
    /\ pc' = [pc EXCEPT ![n] =
                 IF AppendVerdict(chain[n], validators, cand[n]) = "appended"
                 THEN "store" ELSE "evict"]
    /\ UNCHANGED <<validators, running, chain, current_transactions, mempool, height,
                   cand, sigs, vi, handlerVars, presp, clock, envVars, accepted>>

\* the rest of append_committed_block: block_obj is appended to self.chain
LocalStore(n) ==
    /\ pc[n] = "store"
    /\ chain' = [chain EXCEPT ![n] = AppendBlock(@, BlockObj(cand[n]))]
    /\ current_transactions' =
           [current_transactions EXCEPT ![n] = RemoveMatching(@, cand[n].transactions)]
    /\ pc' = [pc EXCEPT ![n] = "evict"]
    /\ UNCHANGED <<validators, running, mempool, height, cand, sigs, vi, handlerVars,
                   presp, clock, envVars, accepted>>

\* the result of the append is not read: the transactions of the draft
\* leave the mempool, and the loop sleeps
LocalEvict(n) ==
    /\ pc[n] = "evict"
    /\ mempool' = [mempool EXCEPT ![n] = RemoveMatching(@, cand[n].transactions)]
    /\ pc' = [pc EXCEPT ![n] = "sleep"]
    /\ cand' = [cand EXCEPT ![n] = NoBlock]
    /\ vi' = [vi EXCEPT ![n] = 0]
    /\ height' = [height EXCEPT ![n] = 0]
    /\ UNCHANGED <<validators, running, chain, current_transactions, sigs, handlerVars,
                   presp, clock, envVars, accepted>>

\* ---------------------------------------------------- POST /commit
\* ok, msg = blockchain.append_committed_block(block), from its start to
\* its last test
CommitCheck(n) ==
    /\ hpc[n] = "recv"
    /\ IF AppendVerdict(chain[n], validators, hblk[n]) = "appended"
       THEN /\ hpc' = [hpc EXCEPT ![n] = "store"]
            /\ UNCHANGED <<hblk, hmsg>>
       ELSE /\ hpc' = [hpc EXCEPT ![n] = "rejected"]
            /\ hmsg' = [hmsg EXCEPT ![n] = AppendVerdict(chain[n], validators, hblk[n])]
            /\ UNCHANGED hblk
    /\ UNCHANGED <<validators, running, chain, current_transactions, mempool, loopVars,
                   hfrom, presp, clock, envVars, accepted>>

\* the rest of append_committed_block: block_obj is appended to self.chain
CommitStore(n) ==
    /\ hpc[n] = "store"
    /\ chain' = [chain EXCEPT ![n] = AppendBlock(@, BlockObj(hblk[n]))]
    /\ current_transactions' =
           [current_transactions EXCEPT ![n] = RemoveMatching(@, hblk[n].transactions)]
    /\ hpc' = [hpc EXCEPT ![n] = "evict"]
    /\ UNCHANGED <<validators, running, mempool, loopVars, hblk, hmsg, hfrom, presp,
                   clock, envVars, accepted>>

\* for tx in block["transactions"]: remove it from the mempool; 200
CommitEvict(n) ==
    /\ hpc[n] = "evict"
    /\ mempool' = [mempool EXCEPT ![n] = RemoveMatching(@, hblk[n].transactions)]
    /\ hpc' = [hpc EXCEPT ![n] = "idle"]
    /\ hblk' = [hblk EXCEPT ![n] = NoBlock]
    /\ Respond(n)
    /\ UNCHANGED <<validators, running, chain, current_transactions, height, cand, sigs,
                   hmsg, presp, clock, envVars, accepted>>

\* return jsonify({"error": msg}), 400
CommitReject(n) ==
    /\ hpc[n] = "rejected"
    /\ hpc' = [hpc EXCEPT ![n] = "idle"]
    /\ hmsg' = [hmsg EXCEPT ![n] = ""]
    /\ hblk' = [hblk EXCEPT ![n] = NoBlock]
    /\ Respond(n)
    /\ UNCHANGED <<validators, running, chain, current_transactions, mempool, height,
                   cand, sigs, presp, clock, envVars, accepted>>

\* ------------------------------------------------- foreign requests
\* /propose and /commit answer whoever posts to them.  A foreign block is
\* built on the receiving node's tip or on a hash that is not its tip, names
\* a registered or an unregistered proposer, is signed over its own fields or
\* over fields altered afterwards, and carries attestations, read as
\* <<validator named, key that signed>>.
CraftedTxs == <<"Vote: YES">>
AlteredTxs == <<"Vote: NO">>

Attestations(kind, proposer) ==
    CASE kind = "none" -> <<>>
      [] kind = "own" -> <<<<proposer, proposer>>>>
      [] kind = "own twice" -> <<<<proposer, proposer>>, <<proposer, proposer>>>>
      [] kind = "all" -> [i \in 1..Len(validators) |-> <<validators[i], validators[i]>>]
      [] kind = "all forged" ->
             [i \in 1..Len(validators) |-> <<validators[i], Unregistered>>]

Craft(index, prev, proposer, signedTxs, kind, hash) ==
    LET body == [index |-> index, timestamp |-> FIXED_GENESIS_BLOCK.timestamp,
                 transactions |-> CraftedTxs,
                 previous_hash |-> prev, proposer |-> proposer,
                 proposer_sig |-> BadSig, signatures |-> <<>>, hash |-> hash]
        signed == [body EXCEPT !.transactions = signedTxs]
        atts == Attestations(kind, proposer)
    IN  [body EXCEPT
            !.proposer_sig = SignPem(proposer, HashBlockForSigning(signed)),
            !.signatures = [i \in 1..Len(atts) |->
                               [validator |-> atts[i][1],
                                sig |-> SignPem(atts[i][2], HashBlockForSigning(body))]]]

\* every combination of the four faults append_committed_block looks for,
\* and the blocks that differ from a well-formed one in what it does not
\* look at or counts
CraftedCommits(n) ==
    {Craft(Len(chain[n]), prev, proposer, signedTxs, kind, NoHash) :
        prev \in {chain[n][Len(chain[n])].hash, ZeroHash},
        proposer \in Range(validators) \cup {Unregistered},
        signedTxs \in {CraftedTxs, AlteredTxs},
        kind \in {"all", "none"}}
    \cup
    {Craft(v[1], chain[n][Len(chain[n])].hash, proposer, CraftedTxs, v[2], v[3]) :
        proposer \in Range(Take(validators, 1)),
        v \in {<<Len(chain[n]), "own", NoHash>>,
               <<Len(chain[n]), "own twice", NoHash>>,
               <<Len(chain[n]), "all forged", NoHash>>,
               <<Len(chain[n]), "all", ForgedHash>>,
               <<0, "all", NoHash>>}}

CraftedProposals(n) ==
    {Craft(Len(chain[n]), prev, proposer, signedTxs, "none", NoHash) :
        prev \in {chain[n][Len(chain[n])].hash, ZeroHash},
        proposer \in Range(validators) \cup {Unregistered},
        signedTxs \in {CraftedTxs, AlteredTxs}}

\* POST /commit from outside the proposer loops
InjectCommit(n, block) ==
    /\ n \in running
    /\ injectsLeft > 0
    /\ hpc[n] = "idle"
    /\ hpc' = [hpc EXCEPT ![n] = "recv"]
    /\ hblk' = [hblk EXCEPT ![n] = block]
    /\ injectsLeft' = injectsLeft - 1
    /\ UNCHANGED <<validators, running, chain, current_transactions, mempool, loopVars,
                   hmsg, hfrom, presp, clock, votesLeft, accepted>>

\* POST /propose from outside the proposer loops
InjectPropose(n, block) ==
    /\ n \in running
    /\ injectsLeft > 0
    /\ presp' = [node |-> n,
                 resp |-> ReceiveProposal(n, validators, block, block.proposer_sig)]
    /\ injectsLeft' = injectsLeft - 1
    /\ UNCHANGED <<validators, running, chain, current_transactions, mempool, loopVars,
                   handlerVars, clock, votesLeft, accepted>>

\* ------------------------------------------------------------ Next
Next ==
    \/ \E n \in NodeIds, vote \in {"YES", "no", "maybe"} : Submit(n, vote)
    \/ \E n \in NodeIds : TickCheck(n)
    \/ \E n \in NodeIds : BuildDraft(n)
    \/ \E n \in NodeIds, reached \in BOOLEAN : SendPropose(n, reached)
    \/ \E n \in NodeIds : Decide(n)
    \/ \E n \in NodeIds, reached \in BOOLEAN : SendCommit(n, reached)
    \/ \E n \in NodeIds : Timeout(n)
    \/ \E n \in NodeIds : LocalCheck(n)
    \/ \E n \in NodeIds : LocalStore(n)
    \/ \E n \in NodeIds : LocalEvict(n)
    \/ \E n \in NodeIds : CommitCheck(n)
    \/ \E n \in NodeIds : CommitStore(n)
    \/ \E n \in NodeIds : CommitEvict(n)
    \/ \E n \in NodeIds : CommitReject(n)

NextOpen ==
    \/ Next
    \/ /\ injectsLeft > 0
       /\ \E n \in running : \E block \in CraftedCommits(n) : InjectCommit(n, block)
    \/ /\ injectsLeft > 0
       /\ \E n \in running : \E block \in CraftedProposals(n) : InjectPropose(n, block)

\* the honest cluster in which, after the first MaxLostRounds drafts, every
\* validator answers /propose
NextLive ==
    \/ \E n \in NodeIds, vote \in {"YES", "no", "maybe"} : Submit(n, vote)
    \/ \E n \in NodeIds : TickCheck(n)
    \/ \E n \in NodeIds : BuildDraft(n)
    \/ \E n \in NodeIds : SendPropose(n, TRUE)
    \/ \E n \in NodeIds : cand[n].timestamp <= MaxLostRounds /\ SendPropose(n, FALSE)
    \/ \E n \in NodeIds : Decide(n)
    \/ \E n \in NodeIds, reached \in BOOLEAN : SendCommit(n, reached)
    \/ \E n \in NodeIds : Timeout(n)
    \/ \E n \in NodeIds : LocalCheck(n)
    \/ \E n \in NodeIds : LocalStore(n)
    \/ \E n \in NodeIds : LocalEvict(n)
    \/ \E n \in NodeIds : CommitCheck(n)
    \/ \E n \in NodeIds : CommitStore(n)
    \/ \E n \in NodeIds : CommitEvict(n)
    \/ \E n \in NodeIds : CommitReject(n)

\* the proposer thread of n is scheduled while it has a statement to run
\* (every post returns within its timeout), and so are the handler threads
LoopStep(n) ==
    \/ TickCheck(n)
    \/ BuildDraft(n)
    \/ SendPropose(n, TRUE)
    \/ cand[n].timestamp <= MaxLostRounds /\ SendPropose(n, FALSE)
    \/ Decide(n)
    \/ \E reached \in BOOLEAN : SendCommit(n, reached)
    \/ LocalCheck(n)
    \/ LocalStore(n)
    \/ LocalEvict(n)

HandlerStep(n) == CommitCheck(n) \/ CommitStore(n) \/ CommitEvict(n) \/ CommitReject(n)

Fairness == \A n \in NodeIds : WF_vars(LoopStep(n)) /\ WF_vars(HandlerStep(n))

Spec == Init /\ [][Next]_vars

SpecLive == Init /\ [][NextLive]_vars /\ Fairness

SpecOpen == InitOpen /\ [][NextOpen]_vars

\* ================================================================ claims

\* ------------------------------------------------------------------ C1
C1_Faulty(ch, b) ==
    \/ ch # <<>> /\ b.previous_hash # ch[Len(ch)].hash
    \/ b.proposer \notin Range(validators)
    \/ b.proposer_sig # SignPem(b.proposer, HashBlockForSigning(b))

C1_Rejected(n) ==
    /\ hpc'[n] = "rejected"
    /\ chain'[n] = chain[n]
    /\ mempool'[n] = mempool[n]

\* C1: append_committed_block leaves the ledger as it is when the block is
\* not built on the tip, names a proposer the registry has no key for, or
\* bears a proposer_sig that does not verify over the recomputed digest; the
\* /commit handler then answers 400 and leaves the mempool as it is, from
\* the verdict to the response.
C1_RejectsFaulty ==
    [][\A n \in NodeIds :
          /\ CommitCheck(n) /\ C1_Faulty(chain[n], hblk[n]) => C1_Rejected(n)
          /\ LocalCheck(n) /\ C1_Faulty(chain[n], cand[n]) =>
                 pc'[n] # "store" /\ chain'[n] = chain[n]
          /\ CommitReject(n) => chain'[n] = chain[n] /\ mempool'[n] = mempool[n]
      ]_vars

C1_Witness ==
    \E n \in NodeIds : hpc[n] = "rejected" /\ hmsg[n] = "invalid proposer signature"

\* ------------------------------------------------------------------ C2
C2_VerifiedAttesters(b) ==
    {v \in Range(validators) :
        \E i \in 1..Len(b.signatures) :
            /\ b.signatures[i].validator = v
            /\ b.signatures[i].sig = SignPem(v, HashBlockForSigning(b))}

C2_Quorum == Max(1, (Len(validators) \div 2) + 1)

\* C2: every block after the genesis block, in the ledger of any node, bears
\* verified attestations of at least max(1, floor(validator_count/2) + 1)
\* distinct registered validators, append_committed_block rejecting the rest.
C2_QuorumOnLedger ==
    \A n \in NodeIds : \A i \in 2..Len(chain[n]) :
        Cardinality(C2_VerifiedAttesters(chain[n][i])) >= C2_Quorum

\* ------------------------------------------------------------------ C3
\* C3: is_chain_valid() succeeds on the ledger of every node in every state:
\* every block after the genesis block stores the hash of its own fields and
\* the stored hash of the block before it.
C3_ChainValid == \A n \in NodeIds : IsChainValid(chain[n])

\* ------------------------------------------------------------------ C4
C4_Appends(n) ==
    \/ pc[n] = "store" /\ pc'[n] # "store"
    \/ hpc[n] = "store" /\ hpc'[n] # "store"

\* C4: the ledger of a node only grows at its end: every step keeps it as a
\* prefix of what it becomes, a successful append_committed_block adds
\* exactly one block, and every other step leaves it as it is.
C4_AppendOnly ==
    [][\A n \in NodeIds :
          /\ Len(chain'[n]) >= Len(chain[n])
          /\ SubSeq(chain'[n], 1, Len(chain[n])) = chain[n]
          /\ IF C4_Appends(n)
             THEN Len(chain'[n]) = Len(chain[n]) + 1
             ELSE chain'[n] = chain[n]
      ]_vars

C4_Witness == \E n \in NodeIds : Len(chain[n]) = 3 /\ hpc[n] = "rejected"

\* ------------------------------------------------------------------ C5
C5_Removed(n) ==
    accepted[n]["Vote: YES"] + accepted[n]["Vote: NO"] - Len(mempool[n])

RECURSIVE C5_Appended(_)
C5_Appended(ch) ==
    IF Len(ch) <= 1 THEN 0
    ELSE Len(ch[Len(ch)].transactions) + C5_Appended(SubSeq(ch, 1, Len(ch) - 1))

\* C5: the entries that have left the mempool of a node are at most as many
\* as the transactions of the blocks the node has appended: a block of k
\* transactions removes at most k entries, whichever paths appended and
\* evicted it, and nothing leaves the mempool while no block is appended.
C5_EvictionBounded ==
    \A n \in NodeIds : C5_Removed(n) <= C5_Appended(chain[n])

\* ------------------------------------------------------------------ C6
C6_Leader(n, h) ==
    validators # <<>> /\ validators[(h % Len(validators)) + 1] = n

\* C6: a tick goes on to build a draft only on the node that is
\* validators[len(ledger) mod validator_count] (B for [A,B,C] at height 4),
\* only such a node sends propose and commit requests, and the tick of any
\* other node sends nothing and leaves its ledger and its mempool alone.
C6_LeaderOnly ==
    [][/\ ProposerId(<<"A", "B", "C">>, 4) = "B"
       /\ \A n \in NodeIds :
            /\ pc[n] = "sleep" /\ pc'[n] = "build" => C6_Leader(n, Len(chain[n]))
            /\ pc[n] \in {"build", "propose", "commit", "await", "store", "evict"} =>
                   C6_Leader(n, height[n])
            /\ TickCheck(n) /\ ~C6_Leader(n, Len(chain[n])) =>
                   /\ pc'[n] \in {"sleep", "crashed"}
                   /\ UNCHANGED <<chain, mempool, hpc, hblk, sigs, cand>>
      ]_vars

C6_Witness ==
    \E n, m \in running :
        /\ n # m
        /\ pc[n] = "propose"
        /\ pc[m] = "sleep"
        /\ Len(mempool[m]) >= MAX_TX

\* ------------------------------------------------------------------ C7
\* C7: every draft of the proposer loop, and every block of a ledger, holds
\* exactly max_tx_per_block transactions.
C7_FullDrafts ==
    \A n \in NodeIds :
        /\ pc[n] \in {"propose", "commit", "await", "store", "evict"} =>
               Len(cand[n].transactions) = MAX_TX
        /\ \A i \in 2..Len(chain[n]) : Len(chain[n][i].transactions) = MAX_TX

\* ------------------------------------------------------------------ C8
C8_Attesters(b) == {b.signatures[i].validator : i \in 1..Len(b.signatures)}

C8_Quorum(count) == Max(1, (count \div 2) + 1)

C8_Finalized(b) ==
    /\ b.proposer \in C8_Attesters(b)
    /\ Cardinality(C8_Attesters(b)) = Len(b.signatures)
    /\ Cardinality(C8_Attesters(b)) >= C8_Quorum(Len(validators))

\* C8: a draft that the leader broadcasts as committed, or that is in a
\* ledger, bears one attestation per validator identity, the leader's among
\* them, from at least max(1, floor(validator_count/2) + 1) identities; the
\* threshold is 3 for 4 validators and 1 for one validator and for none.
C8_CommitsOnQuorum ==
    /\ Threshold(<<"A", "B", "C", "D">>) = 3
    /\ Threshold(<<"A">>) = 1
    /\ Threshold(<<>>) = 1
    /\ \A n \in NodeIds :
          /\ pc[n] \in {"commit", "await", "store", "evict"} => C8_Finalized(cand[n])
          /\ hpc[n] \in {"recv", "store", "evict"} => C8_Finalized(hblk[n])
          /\ \A i \in 2..Len(chain[n]) : C8_Finalized(chain[n][i])

C8_Witness ==
    \E n \in NodeIds :
        /\ pc[n] = "commit"
        /\ Len(validators) = 2
        /\ \A i \in 1..Len(sigs[n]) : sigs[n][i].validator # n

\* ------------------------------------------------------------------ C9
C9_Count(n) == Cardinality({sigs[n][i].validator : i \in 1..Len(sigs[n])} \cup {n})

C9_Fails(n) ==
    /\ pc[n] = "propose"
    /\ vi[n] > Len(validators)
    /\ pc'[n] # "propose"
    /\ C9_Count(n) < C8_Quorum(Len(validators))

\* C9: the round of a leader that ends below the quorum ends in the sleep
\* of the loop with every ledger and mempool as it was and no commit request
\* sent; the draft was built on the height and tip the node still has, which
\* the next round reads again; and a round starts with no attestation and
\* counts only attestations over its own draft.
C9_FailedRoundLeavesNothing ==
    [][\A n \in NodeIds :
          /\ C9_Fails(n) =>
                 /\ pc'[n] = "sleep"
                 /\ UNCHANGED <<chain, mempool, current_transactions, hpc, hblk>>
                 /\ cand[n].index = Len(chain[n])
                 /\ cand[n].previous_hash = chain[n][Len(chain[n])].hash
          /\ pc[n] = "build" /\ pc'[n] = "propose" => sigs'[n] = <<>>
          /\ pc[n] \in {"propose", "commit", "await", "store", "evict"} =>
                 \A i \in 1..Len(sigs[n]) :
                     sigs[n][i].sig.digest = HashBlockForSigning(cand[n])
      ]_vars

C9_Witness ==
    \E n \in NodeIds :
        /\ Len(validators) = 2
        /\ pc[n] = "sleep"
        /\ clock = 2
        /\ Len(chain[n]) = 1
        /\ sigs[n] # <<>>

\* ----------------------------------------------------------------- C10
C10_Valid(b) ==
    /\ b.proposer \in Range(validators)
    /\ b.proposer_sig = SignPem(b.proposer, HashBlockForSigning(b))

C10_Attestation(v, b) ==
    [validator |-> v, sig |-> SignPem(v, HashBlockForSigning(b))]

\* C10: /propose answers with the node's attestation over the recomputed
\* digest exactly when the proposer is registered and proposer_sig verifies
\* over that digest, so not when the transactions were altered after the
\* signing; the answers a proposer loop collects are such attestations; and
\* serving /propose leaves every ledger and mempool as it was.
C10_AttestsIffValid ==
    [][\A n \in NodeIds :
          /\ (injectsLeft > 0 /\ n \in running) =>
                 \A b \in CraftedProposals(n) :
                     InjectPropose(n, b) =>
                         /\ presp'.resp # NoResp <=> C10_Valid(b)
                         /\ C10_Valid(b) => presp'.resp = C10_Attestation(n, b)
                         /\ UNCHANGED <<chain, mempool, current_transactions>>
          /\ SendPropose(n, TRUE) =>
                 /\ C10_Valid(cand[n])
                 /\ sigs'[n] = Append(sigs[n],
                                      C10_Attestation(validators[vi[n]], cand[n]))
                 /\ UNCHANGED <<chain, mempool, current_transactions>>
      ]_vars

C10_Witness == presp.node \in NodeIds /\ presp.resp # NoResp

\* ----------------------------------------------------------------- C11
RECURSIVE C11_Occurrences(_, _)
C11_Occurrences(txs, text) ==
    IF txs = <<>> THEN 0
    ELSE (IF txs[1] = text THEN 1 ELSE 0)
         + C11_Occurrences(SubSeq(txs, 2, Len(txs)), text)

RECURSIVE C11_InLedger(_, _)
C11_InLedger(ch, text) ==
    IF ch = <<>> THEN 0
    ELSE C11_Occurrences(ch[Len(ch)].transactions, text)
         + C11_InLedger(SubSeq(ch, 1, Len(ch) - 1), text)

\* C11: on every node, in every state, count_votes returns as YES the number
\* of "Vote: YES" transactions of the blocks of the ledger plus those pending
\* in the mempool of the node, and as NO the same number for "Vote: NO".
C11_TallyCountsPending ==
    \A n \in NodeIds :
        CountVotes(chain[n], current_transactions[n]) =
            [YES |-> C11_InLedger(chain[n], "Vote: YES")
                         + C11_Occurrences(mempool[n], "Vote: YES"),
             NO |-> C11_InLedger(chain[n], "Vote: NO")
                        + C11_Occurrences(mempool[n], "Vote: NO")]

\* ----------------------------------------------------------------- C12
\* C12: in the ledger of every node, in every state, the index of every
\* block is its position in the ledger, the genesis block at position 0,
\* whichever path appended the block and whenever the loop read the height
\* and the tip of its draft.
C12_IndexIsPosition ==
    \A n \in NodeIds : \A i \in 1..Len(chain[n]) : chain[n][i].index = i - 1

\* ----------------------------------------------------------------- C13
\* C13: in the ledger of every node, in every state, every block after the
\* genesis block is built on the stored hash of the block before it and no
\* block stands at two positions: a draft whose tip is no longer the tip is
\* not appended, however the /commit handlers and the local append of the
\* loop interleave.
C13_StaleDraftNotAppended ==
    \A n \in NodeIds :
        /\ \A i \in 2..Len(chain[n]) :
               chain[n][i].previous_hash = chain[n][i - 1].hash
        /\ \A i, j \in 1..Len(chain[n]) : i # j => chain[n][i] # chain[n][j]

\* ----------------------------------------------------------------- C14
\* a block is in the ledger of n by its /commit handler and transactions of
\* the block are still in the mempool of n
C14_Unevicted(n) ==
    /\ hpc[n] = "evict"
    /\ \E i \in 1..Len(hblk[n].transactions) :
           Contains(mempool[n], hblk[n].transactions[i])

\* C14: the loop of a node reads the mempool and the height for a draft, and
\* builds the draft, only in states where every block appended to the ledger
\* of the node has had its transactions removed from the mempool.
C14_AppendAndEvictAsOne ==
    [][\A n \in NodeIds :
          (TickCheck(n) /\ pc'[n] = "build") \/ BuildDraft(n) => ~C14_Unevicted(n)
      ]_vars

\* ----------------------------------------------------------------- C15
\* C15: the proposer loop of no node ever ends in an error, whatever the
\* peers answer and whatever the size of the registry, the empty registry
\* with a mempool of at least max_tx_per_block entries included.
C15_LoopNeverStops == \A n \in NodeIds : pc[n] # "crashed"

\* ----------------------------------------------------------------- C16
\* the rules of append_committed_block that block b breaks on ledger ch, by
\* their rank in the order of the claim
C16_Broken(ch, b) ==
    {r \in 1..4 :
        \/ r = 1 /\ ch # <<>> /\ b.previous_hash # ch[Len(ch)].hash
        \/ r = 2 /\ b.proposer \notin Range(validators)
        \/ r = 3 /\ b.proposer_sig # SignPem(b.proposer, HashBlockForSigning(b))
        \/ r = 4 /\ Cardinality(C2_VerifiedAttesters(b)) < Needed}

C16_Message(r) ==
    CASE r = 1 -> "previous_hash mismatch"
      [] r = 2 -> "unknown proposer"
      [] r = 3 -> "invalid proposer signature"
      [] r = 4 -> "not enough valid signatures"

C16_First(rules) == CHOOSE r \in rules : \A q \in rules : r <= q

\* C16: append_committed_block tests the tip, then the proposer, then the
\* proposer signature, then the attestations, and returns at the first rule
\* the block breaks: a block that breaks several is refused with the message
\* of the first of them, and a block that breaks none goes on to the append.
C16_FirstFailureReported ==
    [][\A n \in NodeIds :
          /\ CommitCheck(n) =>
                 IF C16_Broken(chain[n], hblk[n]) = {}
                 THEN hpc'[n] = "store"
                 ELSE /\ hpc'[n] = "rejected"
                      /\ hmsg'[n] = C16_Message(C16_First(C16_Broken(chain[n], hblk[n])))
          /\ LocalCheck(n) =>
                 (pc'[n] = "store" <=> C16_Broken(chain[n], cand[n]) = {})
      ]_vars

C16_Witness ==
    \E n \in NodeIds :
        /\ hpc[n] = "rejected"
        /\ hmsg[n] = "previous_hash mismatch"
        /\ {2, 3, 4} \subseteq C16_Broken(chain[n], hblk[n])

\* ----------------------------------------------------------------- C17
\* the loop of n is between two ticks, n is the leader for the height h of
\* its ledger and its mempool holds max_tx_per_block entries or more
C17_Ready(n, h) ==
    /\ n \in running
    /\ validators # <<>>
    /\ pc[n] = "sleep"
    /\ Len(chain[n]) = h
    /\ ProposerId(validators, h) = n
    /\ Len(mempool[n]) >= MAX_TX
    /\ clock <= MaxClock

\* a block stands at height h of the ledger of n and the round is over
C17_Done(n, h) == Len(chain[n]) > h /\ pc[n] = "sleep"

\* C17: with the threads scheduled fairly and the validators answering
\* /propose, a leader whose mempool holds max_tx_per_block entries or more
\* when its loop sleeps goes on, in this tick or after a round that missed
\* the quorum, to a block at that height in its ledger and to the end of
\* the round that evicts the transactions of the block.
C17_LeaderRoundCompletes ==
    \A n \in NodeIds, h \in 1..(2 * MaxClock + 1) : C17_Ready(n, h) ~> C17_Done(n, h)

\* ----------------------------------------------------------------- C18
C18_Min(a, b) == IF a <= b THEN a ELSE b

\* C18: the nodes of the cluster read the same validators.json, and whatever
\* propose and commit messages are lost or late, two ledgers hold the same
\* block, field by field, at every height both of them have: one ledger is
\* a prefix of the other.
C18_Agreement ==
    \A n \in running, m \in running :
        \A h \in 1..C18_Min(Len(chain[n]), Len(chain[m])) : chain[n][h] = chain[m][h]

\* ----------------------------------------------------------------- C19
\* C19: whatever /propose and /commit requests a registered validator
\* sends, every block after the genesis block of a ledger names as proposer
\* the leader elected for its position: the block at position i (counted
\* from 0) is by validators[i mod validator_count].
C19_AuthoredByLeader ==
    \A n \in NodeIds : \A k \in 2..Len(chain[n]) :
        validators # <<>> => chain[n][k].proposer = ProposerId(validators, k - 1)

\* ----------------------------------------------------------------- C20
RECURSIVE C20_Sum(_, _)
C20_Sum(f, S) ==
    IF S = {} THEN 0
    ELSE LET n == CHOOSE x \in S : TRUE IN f[n] + C20_Sum(f, S \ {n})

C20_Longest ==
    chain[CHOOSE n \in NodeIds : \A m \in NodeIds : Len(chain[n]) >= Len(chain[m])]

C20_Pending(text) ==
    C20_Sum([n \in NodeIds |-> C11_Occurrences(mempool[n], text)], NodeIds)

C20_Accepted(text) == C20_Sum([n \in NodeIds |-> accepted[n][text]], NodeIds)

\* no proposer loop is inside a round and no /commit is being served
C20_Quiet == \A n \in NodeIds : pc[n] = "sleep" /\ hpc[n] = "idle"

\* C20: no accepted vote is lost.  Whenever the cluster is at rest, for each
\* of "Vote: YES" and "Vote: NO" the occurrences in the longest ledger plus
\* the occurrences pending in the mempools of all nodes equal the number of
\* times POST /tx accepted that vote on any node; with a single validator,
\* the occurrences in the ledger of the node plus those in its mempool equal
\* the votes it accepted.
C20_NoVoteLost ==
    C20_Quiet =>
        \A text \in {"Vote: YES", "Vote: NO"} :
            /\ C11_InLedger(C20_Longest, text) + C20_Pending(text) = C20_Accepted(text)
            /\ Len(validators) = 1 =>
                   \A n \in running :
                       C11_InLedger(chain[n], text) + C11_Occurrences(mempool[n], text)
                           = accepted[n][text]

====
